---- MODULE Spec2Model ----
(***************************************************************************)
(* goAzureKeyVault (main.go): a command-line client that reads its         *)
(* configuration from the environment, acquires a bearer credential for    *)
(* Azure Key Vault through a file-based token cache, and looks up three    *)
(* secrets.  One behaviour of this model is a sequence of runs of the      *)
(* program against the same file system (the .env file and the cache       *)
(* directory persist between runs, the process state does not).            *)
(*                                                                         *)
(* Strings that the code compares or concatenates are modelled as          *)
(* sequences of words (an error message, the aggregated parseArgs          *)
(* message); the empty string of an environment variable is "".            *)
(* A Go pointer is a sequence of length at most one: << >> is nil.         *)
(***************************************************************************)
EXTENDS Integers, Sequences, FiniteSets, TLC

\* ---------------------------------------------------------------- bounds
\* Latest clock value at which a run may start.
MaxTime == 2
\* Longest lifetime (in clock units) of a token the identity provider issues.
MaxTTL == 2

\* ------------------------------------------------------- the environment
\* The variables parseArgs reads, in the order it reads them.
VarNames ==
  << "VAULT_BASE_URL", "USER_SECRET_NAME", "USER_SECRET_VERSION",
     "PASSWORD_SECRET_NAME", "PASSWORD_SECRET_VERSION",
     "AZ_TENANT_ID", "AZ_CLIENT_ID", "AZ_CLIENT_SECRET" >>

VarSet == { VarNames[i] : i \in 1..Len(VarNames) }

ClientIds == { "c1", "c2" }

\* A tenant id that cannot be put into a URL (an invalid percent escape).
BadTenant == "%zz"

\* The values an environment variable takes in the first run; "" is
\* empty/unset.  (Later runs may be started with another client id.)
EnvValues(v) ==
  CASE v = "AZ_CLIENT_ID" -> {"", "c1"}
    [] v = "AZ_TENANT_ID" -> {"", "t1", BadTenant}
    [] v = "VAULT_BASE_URL" -> {"", "https://v"}
    [] v = "USER_SECRET_NAME" -> {"", "UserName"}
    [] v = "PASSWORD_SECRET_NAME" -> {"", "Password"}
    [] v = "AZ_CLIENT_SECRET" -> {"", "s3cret"}
    [] OTHER -> {"", "v1"}

\* The value a .env file of the model gives to a variable it defines.
DotenvValue(v) ==
  CASE v = "AZ_CLIENT_ID" -> "c1"
    [] v = "AZ_TENANT_ID" -> "t1"
    [] v = "VAULT_BASE_URL" -> "https://v"
    [] v = "USER_SECRET_NAME" -> "UserName"
    [] v = "PASSWORD_SECRET_NAME" -> "Password"
    [] v = "AZ_CLIENT_SECRET" -> "s3cret"
    [] OTHER -> "v1"

\* The .env files of the model: absent, present but not openable, present
\* with a line that is not KEY=VALUE, or well formed and defining a set of
\* variables.
DotenvFiles ==
  { [kind |-> "absent", vars |-> {}],
    [kind |-> "unreadable", vars |-> {}],
    [kind |-> "malformed", vars |-> {}],
    [kind |-> "valid", vars |-> {"AZ_CLIENT_SECRET"}] }

\* ------------------------------------------------------------ strings
HasPrefix(s, prefix) ==
  /\ Len(s) >= Len(prefix)
  /\ SubSeq(s, 1, Len(prefix)) = prefix

NoError == << >>

\* ------------------------------------------------------------- tokens
\* adal.Token: id stands for the access token value, exp for expires_on.
\* The zero Token (no access token) has an expiry before every clock value.
ZeroToken == [id |-> 0, exp |-> 0]

\* The cache files: no file, a file that does not deserialize, or a file
\* holding a sequence of serialized token records.
NoFile == [exists |-> FALSE, json |-> FALSE, records |-> << >>]

CorruptFile == [exists |-> TRUE, json |-> FALSE, records |-> << >>]

TokenFile(records) == [exists |-> TRUE, json |-> TRUE, records |-> records]

VARIABLES
  osEnv,          \* the environment the operator starts the process in
  dotenv,         \* the .env file in the working directory
  env,            \* the process environment (os.Getenv reads it)
  cfg,            \* the package-level configuration variables
  pc,             \* position of the process: init, main, acquire, lookup, exited
  exitCode,       \* << >> while running, <<status>> once exited
  parseErr,       \* the error parseArgs returned (NoError for nil)
  cache,          \* the files under cache/, by path
  now,            \* the clock
  issued,         \* number of tokens the identity provider has issued
  authorizer,     \* the token inside the client's bearer authorizer, or << >>
  acq,            \* what getKeyvaultAuthorizer did in this run
  tokenRequests,  \* token requests sent to the identity provider in this run
  cacheWrites,    \* successful writes of a cache file in this run
  lookups,        \* secret lookups sent to the vault in this run, in order
  lookupCreds,    \* the token of the authorizer each lookup was sent with
  printed,        \* the secret values printed to standard output, in order
  warnings,       \* the secret names of the warnings logged by main, in order
  hist            \* history of each cache path over the runs so far

vars ==
  << osEnv, dotenv, env, cfg, pc, exitCode, parseErr, cache, now, issued,
     authorizer, acq, tokenRequests, cacheWrites, lookups, lookupCreds,
     printed, warnings, hist >>

\* ------------------------------------------------ loadEnvVars (init)
\* gotenv.Load(): the error of opening or parsing .env, as os.Open and the
\* parser word it.
GotenvLoad(file) ==
  CASE file.kind = "absent" -> << "open", ".env:", "no such file or directory" >>
    [] file.kind = "unreadable" -> << "open", ".env:", "permission denied" >>
    [] file.kind = "malformed" -> << "line", "doesn't match format" >>
    [] OTHER -> NoError

\* gotenv.Load() on a well-formed file: a variable of the file is set unless
\* the environment already has it.
GotenvSetenv(e, file) ==
  [v \in VarSet |->
     IF file.kind = "valid" /\ v \in file.vars /\ e[v] = ""
       THEN DotenvValue(v) ELSE e[v]]

loadEnvVars(file) ==
  LET err == GotenvLoad(file)
  IN IF err # NoError /\ ~HasPrefix(err, << "open", ".env:" >>)
       THEN err
       ELSE NoError

\* ------------------------------------------------------------ parseArgs
\* fmt.Sprintln("<name> missing") when cond holds, nothing otherwise.
MissingLine(cond, name) == IF cond THEN << name >> ELSE << >>

Trailer == "| need to be defined in .env or environment variable."

\* A bug: the two version variables are not checked.
parseArgsMessageNoVersions(e) ==
  MissingLine(e["VAULT_BASE_URL"] = "", "VAULT_BASE_URL")
  \o MissingLine(e["USER_SECRET_NAME"] = "", "USER_SECRET_NAME")
  \o MissingLine(e["USER_SECRET_NAME"] = "", "PASSWORD_SECRET_NAME")
  \o MissingLine(e["AZ_TENANT_ID"] = "", "AZ_TENANT_ID")
  \o MissingLine(e["AZ_CLIENT_ID"] = "", "AZ_CLIENT_ID")
  \o MissingLine(e["AZ_CLIENT_SECRET"] = "", "AZ_CLIENT_SECRET")

\* The message parseArgs builds from the environment e: one line per
\* check that fires, in the order of the checks.
parseArgsMessage(e) ==
  MissingLine(e["VAULT_BASE_URL"] = "", "VAULT_BASE_URL")
  \o MissingLine(e["USER_SECRET_NAME"] = "", "USER_SECRET_NAME")
  \o MissingLine(e["USER_SECRET_VERSION"] = "", "USER_SECRET_VERSION")
  \o MissingLine(e["USER_SECRET_NAME"] = "", "PASSWORD_SECRET_NAME")
  \o MissingLine(e["PASSWORD_SECRET_VERSION"] = "", "PASSWORD_SECRET_VERSION")
  \o MissingLine(e["AZ_TENANT_ID"] = "", "AZ_TENANT_ID")
  \o MissingLine(e["AZ_CLIENT_ID"] = "", "AZ_CLIENT_ID")
  \o MissingLine(e["AZ_CLIENT_SECRET"] = "", "AZ_CLIENT_SECRET")

\* The error parseArgs returns: NoError for nil.
parseArgs(e) ==
  LET message == parseArgsMessage(e)
  IN IF Len(message) > 0 THEN message \o << Trailer >> ELSE NoError

\* ------------------------------------------------ getKeyvaultAuthorizer
\* adal.NewOAuthConfig / url.Parse fail on a tenant id that is no URL part.
OAuthConfigErr(tenant) == tenant = BadTenant

CachePath(clientID) == << "cache", clientID, "token.json" >>

CachePaths == { CachePath(c) : c \in ClientIds }

\* A bug: a token is taken to be expired one clock unit early.
IsExpiredEarly(tok, t) == ~(tok.exp > t + 1)

\* Token.IsExpired() at clock value t: the expiry is not after t.
IsExpired(tok, t) == ~(tok.exp > t)

\* adal.LoadToken: decode the first JSON value of the file as a Token.
LoadToken(file) ==
  IF file.json /\ Len(file.records) > 0
    THEN [token |-> << Head(file.records) >>, err |-> FALSE]
    ELSE [token |-> << >>, err |-> TRUE]

\* tryLoadCachedToken: ioErr is a failure of os.Stat or of opening the file
\* other than "does not exist".
tryLoadCachedToken(file, ioErr) ==
  IF ~file.exists /\ ~ioErr
    THEN [token |-> << >>, err |-> FALSE]
    ELSE IF ioErr
      THEN [token |-> << >>, err |-> TRUE]
      ELSE LoadToken(file)

\* A bug: the expiry of the cached token is not looked at.
UseCachedTokenUnchecked(rawToken, t) == rawToken # << >>

\* The branch condition of line 125.
UseCachedToken(rawToken, t) ==
  rawToken # << >> /\ ~IsExpired(rawToken[1], t)

\* adal.NewServicePrincipalTokenFromManualToken rejects the zero token.
ManualTokenErr(tok) == tok = ZeroToken

\* spt.Refresh() followed by spt.Token(): the token the identity provider
\* issued (the serial-th, living ttl clock units), or the zero token the
\* ServicePrincipalToken was constructed with when the request failed.
RefreshedToken(refreshOK, serial, t, ttl) ==
  IF refreshOK THEN [id |-> serial, exp |-> t + ttl] ELSE ZeroToken

\* A bug: the token is appended to the records of the file.
SaveTokenAppend(file, tok, saveOK) ==
  IF saveOK
    THEN TokenFile((IF file.json THEN file.records ELSE << >>) \o << tok >>)
    ELSE file

\* adal.SaveToken(cachePath, 0600, token): the file is replaced by one
\* holding the token; a failed save leaves the file as it was.
SaveToken(file, tok, saveOK) ==
  IF saveOK THEN TokenFile(<< tok >>) ELSE file

\* What the error of tryLoadCachedToken does to acquisition (lines 119-122):
\* it is logged, and the token is taken to be nil.
LoadErrIsFatal == FALSE

\* A bug (the behaviour of an earlier revision): return nil, err.
SaveErrReturned == TRUE

\* What the error of adal.SaveToken does to acquisition (lines 144-146):
\* it is logged.
SaveErrIsFatal == FALSE

\* What the error of spt.Refresh does to acquisition (lines 139-141).
RefreshErrIsFatal == FALSE

\* A bug (the behaviour of the first revision, with the save added): the
\* cache is not consulted, every acquisition requests and saves a token.
getKeyvaultAuthorizerNoCacheRead(c, file, t, ioErr, refreshOK, ttl, saveOK, serial) ==
  LET fresh == RefreshedToken(refreshOK, serial, t, ttl)
      failed == OAuthConfigErr(c["AZ_TENANT_ID"])
  IN [err |-> failed,
      authorizer |-> IF failed THEN << >> ELSE << fresh >>,
      file |-> IF failed THEN file ELSE SaveToken(file, fresh, saveOK),
      requests |-> IF failed THEN 0 ELSE 1,
      writes |-> IF failed \/ ~saveOK THEN 0 ELSE 1,
      loadErr |-> FALSE, hit |-> FALSE,
      refreshErr |-> ~failed /\ ~refreshOK,
      saveErr |-> ~failed /\ ~saveOK,
      rawToken |-> << >>]

\* getKeyvaultAuthorizer with the configuration c, the cache file at its
\* cache path, the clock t and the outcomes of the calls it makes to the
\* file system and the identity provider.
\*   err: an error is returned; authorizer: the token of the bearer
\*   authorizer returned; file: the cache file afterwards; requests, writes:
\*   token requests sent and cache files written.
getKeyvaultAuthorizer(c, file, t, ioErr, refreshOK, ttl, saveOK, serial) ==
  LET loaded == tryLoadCachedToken(file, ioErr)
      rawToken == IF loaded.err THEN << >> ELSE loaded.token
      fresh == RefreshedToken(refreshOK, serial, t, ttl)
      none == [err |-> TRUE, authorizer |-> << >>, file |-> file,
               requests |-> 0, writes |-> 0, loadErr |-> loaded.err,
               hit |-> FALSE, refreshErr |-> FALSE, saveErr |-> FALSE,
               rawToken |-> rawToken]
  IN IF OAuthConfigErr(c["AZ_TENANT_ID"])
       THEN [none EXCEPT !.loadErr = FALSE, !.rawToken = << >>]
       ELSE IF loaded.err /\ LoadErrIsFatal
         THEN none
         ELSE IF UseCachedToken(rawToken, t)
           THEN IF ManualTokenErr(rawToken[1])
                  THEN none
                  ELSE [none EXCEPT !.err = FALSE, !.authorizer = rawToken,
                                    !.hit = TRUE]
           ELSE IF ~refreshOK /\ RefreshErrIsFatal
             THEN [none EXCEPT !.requests = 1, !.refreshErr = TRUE]
             ELSE IF ~saveOK /\ SaveErrIsFatal
               THEN [none EXCEPT !.requests = 1, !.refreshErr = ~refreshOK,
                                 !.saveErr = TRUE]
               ELSE [none EXCEPT !.err = FALSE,
                                 !.authorizer = << fresh >>,
                                 !.file = SaveToken(file, fresh, saveOK),
                                 !.requests = 1,
                                 !.writes = IF saveOK THEN 1 ELSE 0,
                                 !.refreshErr = ~refreshOK,
                                 !.saveErr = ~saveOK]

\* ------------------------------------------------------------ getSecret
\* A bug: the second lookup is given the configured version too.
SecretRequestsAllVersioned(c) ==
  << << c["USER_SECRET_NAME"], c["USER_SECRET_VERSION"] >>,
     << c["PASSWORD_SECRET_NAME"], c["PASSWORD_SECRET_VERSION"] >>,
     << c["PASSWORD_SECRET_NAME"], c["PASSWORD_SECRET_VERSION"] >> >>

\* The three lookups of main, in order: (name, version).
SecretRequests(c) ==
  << << c["USER_SECRET_NAME"], c["USER_SECRET_VERSION"] >>,
     << c["PASSWORD_SECRET_NAME"], "" >>,
     << c["PASSWORD_SECRET_NAME"], c["PASSWORD_SECRET_VERSION"] >> >>

\* The value the vault holds for a secret; the empty string is << >>.
SecretValue(request) == << "value of", request[1], request[2] >>

\* getSecret: the value and the error of one lookup.
getSecret(request, ok) ==
  IF ok THEN [value |-> SecretValue(request), err |-> FALSE]
        ELSE [value |-> << >>, err |-> TRUE]

\* A bug (the behaviour of an earlier revision): exit on a failed lookup.
LookupErrExits == TRUE

\* Whether a failed lookup ends main (lines 63-65, 71-73, 79-81): it logs a
\* warning and goes on.
LookupErrIsFatal == FALSE

\* The vault answers a lookup only to a credential it accepts: a token the
\* identity provider issued that has not expired.
CredentialUsable(auth, t) ==
  auth # << >> /\ auth[1] # ZeroToken /\ ~IsExpired(auth[1], t)

\* ------------------------------------------------------------- the state
\* The environments a run may be started in.
Environments ==
  [ VAULT_BASE_URL : EnvValues("VAULT_BASE_URL"),
    USER_SECRET_NAME : EnvValues("USER_SECRET_NAME"),
    USER_SECRET_VERSION : EnvValues("USER_SECRET_VERSION"),
    PASSWORD_SECRET_NAME : EnvValues("PASSWORD_SECRET_NAME"),
    PASSWORD_SECRET_VERSION : EnvValues("PASSWORD_SECRET_VERSION"),
    AZ_TENANT_ID : EnvValues("AZ_TENANT_ID"),
    AZ_CLIENT_ID : EnvValues("AZ_CLIENT_ID"),
    AZ_CLIENT_SECRET : EnvValues("AZ_CLIENT_SECRET") ]

\* The record of one call of getKeyvaultAuthorizer: its result r and the
\* cache file it found; h is the history of its cache path before the call.
AcqRecord(r, before, h) ==
  [done |-> TRUE, err |-> r.err, loadErr |-> r.loadErr, hit |-> r.hit,
   refreshErr |-> r.refreshErr, saveErr |-> r.saveErr,
   rawToken |-> r.rawToken, before |-> before,
   saved |-> h.saved, savedReadable |-> h.savedReadable]

NoAcq ==
  [done |-> FALSE, err |-> FALSE, loadErr |-> FALSE, hit |-> FALSE,
   refreshErr |-> FALSE, saveErr |-> FALSE, rawToken |-> << >>,
   before |-> NoFile, saved |-> {}, savedReadable |-> {}]

\* The history of a cache path:
\*   lastRequest   the token spt.Token() gave after the most recent token
\*                 request made for the path (<< >>: no request so far);
\*   lastSaved     the token of the most recent successful SaveToken;
\*   saved         the tokens the identity provider issued that were saved
\*                 to the path;
\*   savedReadable those of them since whose save every read of the path
\*                 succeeded.
NoHistory ==
  [lastRequest |-> << >>, lastSaved |-> << >>, saved |-> {},
   savedReadable |-> {}]

\* The history h of a cache path after a call of getKeyvaultAuthorizer with
\* result r.
Recorded(h, r) ==
  LET issuedAndSaved ==
        IF r.requests = 1 /\ ~r.refreshErr /\ r.writes = 1
          THEN { r.authorizer[1] } ELSE {}
  IN [lastRequest |-> IF r.requests = 1 THEN r.authorizer ELSE h.lastRequest,
      lastSaved |-> IF r.writes = 1 THEN r.authorizer ELSE h.lastSaved,
      saved |-> h.saved \cup issuedAndSaved,
      savedReadable |->
        (IF r.loadErr THEN {} ELSE h.savedReadable) \cup issuedAndSaved]

EmptyCfg == [v \in VarSet |-> ""]

Init ==
  /\ osEnv \in Environments
  /\ dotenv \in DotenvFiles
  /\ env = osEnv
  /\ cfg = EmptyCfg
  /\ pc = "init"
  /\ exitCode = << >>
  /\ parseErr = NoError
  /\ cache \in [CachePaths -> {NoFile}] \cup [CachePaths -> {CorruptFile}]
  /\ now = 0
  /\ issued = 0
  /\ authorizer = << >>
  /\ acq = NoAcq
  /\ tokenRequests = 0
  /\ cacheWrites = 0
  /\ lookups = << >>
  /\ printed = << >>
  /\ warnings = << >>
  /\ lookupCreds = << >>
  /\ hist = [p \in CachePaths |-> NoHistory]

\* os.Exit(status): the process is gone, the file system stays.
Exit(status) ==
  /\ pc' = "exited"
  /\ exitCode' = << status >>

\* func init(): load .env into the environment; exit 1 if that fails.
RunInit ==
  /\ pc = "init"
  /\ IF loadEnvVars(dotenv) # NoError
       THEN /\ Exit(1)
            /\ UNCHANGED env
       ELSE /\ env' = GotenvSetenv(env, dotenv)
            /\ pc' = "main"
            /\ UNCHANGED exitCode
  /\ UNCHANGED << osEnv, dotenv, cfg, parseErr, cache, now, issued,
                  authorizer, acq, tokenRequests, cacheWrites, lookups,
                  printed, warnings, hist, lookupCreds >>

\* A bug: the error of parseArgs is dropped and main goes on.
MainParseArgsErrDropped ==
  /\ pc = "main"
  /\ cfg' = [v \in VarSet |-> env[v]]
  /\ parseErr' = parseArgs(env)
  /\ pc' = "acquire"
  /\ UNCHANGED << osEnv, dotenv, env, exitCode, cache, now, issued,
                  authorizer, acq, tokenRequests, cacheWrites, lookups,
                  printed, warnings, hist, lookupCreds >>

\* main, lines 51-54: parseArgs fills the configuration variables from the
\* environment; log.Fatalf exits with status 1 on its error.
MainParseArgs ==
  /\ pc = "main"
  /\ cfg' = [v \in VarSet |-> env[v]]
  /\ parseErr' = parseArgs(env)
  /\ IF parseErr' # NoError
       THEN Exit(1)
       ELSE /\ pc' = "acquire"
            /\ UNCHANGED exitCode
  /\ UNCHANGED << osEnv, dotenv, env, cache, now, issued, authorizer, acq,
                  tokenRequests, cacheWrites, lookups, printed, warnings,
                  hist, lookupCreds >>

\* main, lines 56-60: getKeysClient, that is getKeyvaultAuthorizer;
\* log.Fatalf exits with status 1 on its error.
MainGetKeysClient ==
  /\ pc = "acquire"
  /\ \E ioErr \in BOOLEAN, refreshOK \in BOOLEAN, saveOK \in BOOLEAN,
        ttl \in 1..MaxTTL :
       LET path == CachePath(cfg["AZ_CLIENT_ID"])
           r == getKeyvaultAuthorizer(cfg, cache[path], now, ioErr,
                                      refreshOK, ttl, saveOK, issued + 1)
       IN /\ cache' = [cache EXCEPT ![path] = r.file]
          /\ authorizer' = r.authorizer
          /\ acq' = AcqRecord(r, cache[path], hist[path])
          /\ hist' = [hist EXCEPT ![path] = Recorded(hist[path], r)]
          /\ tokenRequests' = tokenRequests + r.requests
          /\ cacheWrites' = cacheWrites + r.writes
          /\ issued' = IF r.requests = 1 /\ ~r.refreshErr
                         THEN issued + 1 ELSE issued
          /\ IF r.err
               THEN Exit(1)
               ELSE /\ pc' = "lookup"
                    /\ UNCHANGED exitCode
  /\ UNCHANGED << osEnv, dotenv, env, cfg, parseErr, now, lookups, printed,
                  warnings, lookupCreds >>

\* main, lines 62-83: the next of the three lookups; its value is printed,
\* its error is logged as a warning; main returns after the third.
MainGetSecret ==
  /\ pc = "lookup"
  /\ \E ok \in (IF CredentialUsable(authorizer, now) THEN BOOLEAN ELSE {FALSE}) :
       LET request == SecretRequests(cfg)[Len(lookups) + 1]
           r == getSecret(request, ok)
       IN /\ lookups' = Append(lookups, request)
          /\ lookupCreds' = Append(lookupCreds, authorizer)
          /\ IF r.err /\ LookupErrIsFatal
               THEN /\ Exit(1)
                    /\ UNCHANGED << printed, warnings >>
               ELSE /\ warnings' = IF r.err THEN Append(warnings, request[1])
                                            ELSE warnings
                    /\ printed' = Append(printed, r.value)
                    /\ IF Len(lookups') = Len(SecretRequests(cfg))
                         THEN Exit(0)
                         ELSE UNCHANGED << pc, exitCode >>
  /\ UNCHANGED << osEnv, dotenv, env, cfg, parseErr, cache, now, issued,
                  authorizer, acq, tokenRequests, cacheWrites, hist >>

\* The operator runs the program again, later, as the same service
\* principal or, from then on, as the second one: a new process, the same
\* file system.
StartRun ==
  /\ pc = "exited"
  /\ \E t \in (now + 1)..MaxTime : now' = t
  /\ \E cid \in {osEnv["AZ_CLIENT_ID"], "c2"} :
       /\ osEnv["AZ_CLIENT_ID"] = "" => cid = ""
       /\ osEnv' = [osEnv EXCEPT !["AZ_CLIENT_ID"] = cid]
  /\ env' = osEnv'
  /\ cfg' = EmptyCfg
  /\ pc' = "init"
  /\ exitCode' = << >>
  /\ parseErr' = NoError
  /\ authorizer' = << >>
  /\ acq' = NoAcq
  /\ tokenRequests' = 0
  /\ cacheWrites' = 0
  /\ lookups' = << >>
  /\ printed' = << >>
  /\ warnings' = << >>
  /\ lookupCreds' = << >>
  /\ UNCHANGED << dotenv, cache, issued, hist >>

Next ==
  \/ RunInit
  \/ MainParseArgs
  \/ MainGetKeysClient
  \/ MainGetSecret
  \/ StartRun

Spec == Init /\ [][Next]_vars

\* ------------------------------------------------------------ the claims
\* The variables the specification calls required, and the two it calls
\* optional.
RequiredVars ==
  { "VAULT_BASE_URL", "USER_SECRET_NAME", "PASSWORD_SECRET_NAME",
    "AZ_TENANT_ID", "AZ_CLIENT_ID", "AZ_CLIENT_SECRET" }

VersionVars == { "USER_SECRET_VERSION", "PASSWORD_SECRET_VERSION" }

\* parseArgs has run in this run.
Parsed ==
  \/ pc \in {"acquire", "lookup"}
  \/ pc = "exited" /\ (parseErr # NoError \/ acq.done)

\* The run ended in init(), before main.
InitFailed == pc = "exited" /\ parseErr = NoError /\ ~acq.done

\* The variable names an error message mentions.
Named(err) == { err[i] : i \in 1..Len(err) }

MissingRequired == { v \in RequiredVars : env[v] = "" }

\* getKeyvaultAuthorizer ran and got as far as the cache.
Acquired == acq.done /\ ~OAuthConfigErr(cfg["AZ_TENANT_ID"])

\* The cache file of this run, as it is now.
RunCacheFile == cache[CachePath(cfg["AZ_CLIENT_ID"])]

\* The cache file held, readably, a token that expires strictly after now.
CachedTokenValid ==
  /\ Acquired
  /\ ~acq.loadErr
  /\ acq.before.json
  /\ Len(acq.before.records) > 0
  /\ Head(acq.before.records).exp > now

\* No cache file, a cache file that could not be read or deserialized, or
\* a cached token with now >= its expiry.
CacheMiss ==
  /\ Acquired
  /\ \/ ~acq.before.exists
     \/ ~acq.before.json
     \/ acq.loadErr
     \/ /\ Len(acq.before.records) > 0
        /\ Head(acq.before.records).exp <= now

\* The cache file holds exactly the token just issued, which expires later.
CacheHoldsFresh ==
  /\ RunCacheFile = TokenFile(authorizer)
  /\ authorizer[1].id = issued
  /\ authorizer[1].exp > now

\* C1 (as claimed): when the token request fails, acquisition returns an
\* error, no secret lookup is attempted and the process exits non-zero.
C1_RefreshFailureIsFatal ==
  (acq.done /\ acq.refreshErr) =>
    /\ acq.err
    /\ lookups = << >>
    /\ pc = "exited"
    /\ exitCode = << 1 >>

\* C2 (as claimed): whenever a required variable is empty, parseArgs returns
\* an error whose message names every missing required variable, and it
\* returns nil only when no required variable is missing.
C2_EveryMissingVariableNamed ==
  Parsed =>
    /\ MissingRequired # {} =>
         parseErr # NoError /\ MissingRequired \subseteq Named(parseErr)
    /\ parseErr = NoError => MissingRequired = {}

\* C3: when the cache file holds a token that expires strictly after the
\* current time, acquisition sends no token request and returns, without
\* error, a bearer authorizer holding exactly that token.
C3_ValidCachedTokenIsReused ==
  CachedTokenValid =>
    /\ tokenRequests = 0
    /\ ~acq.err
    /\ acq.hit
    /\ authorizer = << Head(acq.before.records) >>

C3_Witness ==
  /\ CachedTokenValid
  /\ Head(acq.before.records).exp = now + 1
  /\ pc = "lookup"

\* C4 (as claimed): on a cache miss acquisition sends exactly one token
\* request, and if the request succeeds the cache file afterwards holds the
\* newly issued token, whose expiry is in the future.
C4_MissRequestsAndCaches ==
  CacheMiss =>
    /\ tokenRequests = 1
    /\ ~acq.refreshErr => CacheHoldsFresh

\* C4 (amended): on a cache miss acquisition sends exactly one token
\* request, and if the request and the write of the cache file both succeed
\* the cache file afterwards holds the newly issued token, whose expiry is
\* in the future.
C4_MissRequestsAndCachesIfWritten ==
  CacheMiss =>
    /\ tokenRequests = 1
    /\ (~acq.refreshErr /\ ~acq.saveErr) => CacheHoldsFresh

\* An expired token (now = its expiry) was replaced by a fresh one.
C4_Witness ==
  /\ CacheMiss
  /\ acq.before.json
  /\ Len(acq.before.records) > 0
  /\ Head(acq.before.records) # ZeroToken
  /\ Head(acq.before.records).exp = now
  /\ ~acq.loadErr /\ ~acq.refreshErr /\ ~acq.saveErr
  /\ CacheHoldsFresh

\* C5: a failure to read or deserialize the cache file, or to write it
\* after a successful token request, does not fail acquisition: no error is
\* returned, the run does not exit in acquisition, the read failure is
\* treated as a miss, and the authorizer returned holds the token the
\* identity provider issued whenever the token request succeeded.
C5_CacheProblemsAreNotFatal ==
  (Acquired /\ (acq.loadErr \/ (acq.saveErr /\ ~acq.refreshErr))) =>
    /\ ~acq.err
    /\ pc = "exited" => Len(lookups) > 0
    /\ tokenRequests = 1
    /\ authorizer # << >>
    /\ ~acq.refreshErr =>
         /\ CredentialUsable(authorizer, now)
         /\ authorizer[1].id = issued

\* Both the read and the write of the cache file failed, the request did not.
C5_Witness ==
  /\ Acquired
  /\ acq.loadErr /\ acq.saveErr /\ ~acq.refreshErr
  /\ acq.before = CorruptFile
  /\ pc = "lookup"

\* The lookups of this run that failed: the empty value was printed.
FailedLookups == { i \in 1..Len(printed) : printed[i] = << >> }

\* C6: failed lookups are not fatal: a run that started its lookups makes
\* all three, prints the value of every successful one, logs one warning
\* per failed one, and exits with status 0.
C6_LookupFailuresAreNotFatal ==
  /\ pc = "lookup" =>
       /\ exitCode = << >>
       /\ Len(lookups) < 3
  /\ Len(lookups) > 0 =>
       /\ Len(printed) = Len(lookups)
       /\ \A i \in 1..Len(lookups) :
            /\ lookups[i] = SecretRequests(cfg)[i]
            /\ i \notin FailedLookups => printed[i] = SecretValue(lookups[i])
       /\ Len(warnings) = Cardinality(FailedLookups)
       /\ pc = "exited" => (exitCode = << 0 >> /\ Len(lookups) = 3)

\* The scenario of the specification: the second lookup failed, the others
\* did not.
C6_Witness ==
  /\ pc = "exited"
  /\ exitCode = << 0 >>
  /\ FailedLookups = {2}
  /\ Len(warnings) = 1

\* Every variable other than the two versions is set.
AllButVersionsSet == \A v \in VarSet \ VersionVars : env[v] # ""

C8_NoNetworkAfterConfigError ==
  parseErr # NoError =>
    /\ pc = "exited"
    /\ exitCode = << 1 >>
    /\ ~acq.done
    /\ tokenRequests = 0
    /\ lookups = << >>

\* No required variable is set.
C8_Witness ==
  /\ parseErr # NoError
  /\ MissingRequired = RequiredVars
  /\ pc = "exited"

\* C9 (as claimed): loading .env succeeds when the file is absent, and
\* fails, ending the run in init() with status 1, when the file is present
\* but malformed or present but unreadable.
C9_DotenvErrors ==
  pc # "init" =>
    /\ dotenv.kind = "absent" => ~InitFailed
    /\ dotenv.kind \in {"malformed", "unreadable"} =>
         InitFailed /\ exitCode = << 1 >>

\* C10 (as claimed): after a run that obtained a fresh token and saved it,
\* a later run with the same client id that starts before that token's
\* expiry sends no token request; and the cache file holds a single token
\* record, that of the most recent token request.
C10_CacheAvoidsReauthentication ==
  /\ (acq.done /\ \E tok \in acq.saved : now < tok.exp) => tokenRequests = 0
  /\ \A p \in CachePaths :
       hist[p].lastRequest # << >> => cache[p] = TokenFile(hist[p].lastRequest)

\* C10 (amended): after a run that obtained a fresh token and saved it, a
\* later run with the same client id that starts before that token's expiry
\* sends no token request, provided the cache file was read without error
\* in that run and in every run with that client id in between; and the
\* cache file never holds more than one token record: once a write has
\* succeeded it holds exactly the token of the most recent token request
\* whose write succeeded.
C10_CacheAvoidsReauthenticationIfReadable ==
  /\ (acq.done /\ ~acq.loadErr /\ \E tok \in acq.savedReadable : now < tok.exp)
       => (tokenRequests = 0 /\ acq.hit /\ authorizer[1] \in acq.savedReadable)
  /\ \A p \in CachePaths :
       /\ cache[p].json => Len(cache[p].records) = 1
       /\ hist[p].lastSaved # << >> => cache[p] = TokenFile(hist[p].lastSaved)

\* A later run reused the token an earlier run had saved, after a second
\* token had replaced a first one in the same file.
C10_Witness ==
  /\ acq.done /\ acq.hit
  /\ tokenRequests = 0
  /\ authorizer[1] \in acq.savedReadable
  /\ Cardinality(acq.saved) = 2

\* C11 (as claimed): a failed token request leaves the cache file as it
\* was, and every token record in a cache file is a token the identity
\* provider issued.
C11_CacheWrittenOnlyAfterSuccess ==
  /\ (acq.done /\ acq.refreshErr) =>
       (cacheWrites = 0 /\ RunCacheFile = acq.before)
  /\ \A p \in CachePaths :
       \A i \in 1..Len(cache[p].records) :
         /\ cache[p].records[i] # ZeroToken
         /\ cache[p].records[i].id \in 1..issued

\* C12: on a cache hit (a cached token, read without error, that expires
\* after now) acquisition leaves the cache file as it was and writes no
\* file; in every run acquisition sends at most one token request and
\* writes at most one cache file, that of the run's client id.
C12_HitLeavesCacheUnchanged ==
  /\ CachedTokenValid =>
       /\ acq.hit
       /\ cacheWrites = 0
       /\ RunCacheFile = acq.before
  /\ tokenRequests \in {0, 1}
  /\ cacheWrites \in {0, 1}
  /\ cacheWrites = 1 => (acq.done /\ ~acq.hit /\ ~acq.saveErr)
  /\ ~acq.done => (tokenRequests = 0 /\ cacheWrites = 0)

\* A run that hit the cache has ended; the file still holds the token an
\* earlier run saved.
C12_Witness ==
  /\ CachedTokenValid
  /\ pc = "exited"
  /\ RunCacheFile = acq.before
  /\ RunCacheFile = TokenFile(hist[CachePath(cfg["AZ_CLIENT_ID"])].lastSaved)
  /\ cacheWrites = 0

\* The lookups the claim lists, in its order.
ClaimedLookups ==
  << << cfg["USER_SECRET_NAME"], cfg["USER_SECRET_VERSION"] >>,
     << cfg["PASSWORD_SECRET_NAME"], "" >>,
     << cfg["PASSWORD_SECRET_NAME"], cfg["PASSWORD_SECRET_VERSION"] >> >>

\* The token getKeyvaultAuthorizer put into the authorizer in this run: the
\* cached one on a hit, the one of the token request otherwise.
AcquiredToken ==
  IF acq.hit THEN << Head(acq.before.records) >>
             ELSE hist[CachePath(cfg["AZ_CLIENT_ID"])].lastRequest

====
